---- MODULE Spec2Model ----
(***************************************************************************)
(* jet-queue: a Redis-backed job queue (src/src/queue/Queue.ts) and its    *)
(* worker runtime (src/src/worker/Worker.ts), with the two server-side     *)
(* scripts of src/src/utils/scripts.ts and the backoff function of         *)
(* src/src/utils/backoff.ts.                                               *)
(*                                                                         *)
(* The Redis server is one set of variables (waiting, active, delayed,     *)
(* data, startedAt, paused).  Every command, script and MULTI/EXEC block   *)
(* is one atomic step; a client's `await` is the point where other         *)
(* clients' steps interleave.  The producer (Queue) and each Worker are    *)
(* separate Node.js processes.                                             *)
(***************************************************************************)
EXTENDS Integers, Sequences, FiniteSets, TLC

(* ------------------------------ bounds -------------------------------- *)

\* Number of ids uuidv4() hands out (Queue.add calls).
MaxJobs == 2
\* Largest options.attempts a producer passes.
MaxAttempts == 2
\* Last value of the wall clock Date.now().
MaxTime == 1
\* Dispatcher/promoter loop pairs started in all, by process() and resume().
MaxLoops == 2
\* Largest `attempts` and largest backoff.delay passed to calculateBackoff.
MaxBackoffAttempts == 5
MaxBackoffDelay == 3
\* Clients the connection registry may create.
MaxClients == 3

(* --------------------------- program constants ------------------------ *)

\* backoff.delay || 1000
DefaultBackoffDelay == 1000

\* The Queue and the Workers of one process that use one endpoint
Holders == {"queue", "workerA", "workerB"}

Workers == {"w1", "w2", "w3"}
\* workerOptions.concurrency || 1: w1 and w3 with the default, w2 with 2
concurrency == [w \in Workers |-> IF w = "w2" THEN 2 ELSE 1]
\* workerOptions.maxJobsPerWorker || Infinity: 0 stands for "not given", which
\* makes it Infinity; w3 is constructed with 1
maxJobsPerWorker == [w \in Workers |-> IF w = "w3" THEN 1 ELSE 0]
Ids == 1..MaxJobs
Loops == 1..MaxLoops
ReturnValues == {"r1", "r2"}
NoValue == "undefined"
JobTimeout == "Job timeout"
HandlerError == "handler error"

VARIABLES
  \* ---- Redis key-space of one queue (prefix:name:*)
  waiting,      \* list  P:Q:waiting, head first (LPUSH adds at index 1)
  active,       \* list  P:Q:active
  delayed,      \* sorted set P:Q:delayed: function id -> score
  data,         \* field `data` of hash P:Q:job:<id>: function id -> Job
  startedAt,    \* ids whose hash has a `startedAt` field
  paused,       \* key P:Q:paused is set
  \* ---- the producer process
  nextId,       \* the next fresh id of uuidv4()
  removing,     \* the id of the removeJob call between its getJob and its EXEC, or 0
  removeResult, \* how the removeJob call that ended last ended
  got,          \* the getJob call that ended last: its id and its outcome
  \* ---- the worker processes
  isRunning,    \* Worker.isRunning
  processFn,    \* Worker.processFn is installed
  nloops,       \* loop pairs started so far by process()/resume()
  dloop,        \* processJobs() invocations: [pc, activeJobs, settled]
  ploop,        \* processDelayedJobs() invocations: their position
  tasks,        \* processJob() invocations that have not settled
  abandoned,    \* handler promises that lost the race against their timer
  \* ---- environment and history
  promoted,     \* processDelayedJobs() invocations: their processedJobsCount
  closing,      \* a Worker.close() call is inside its delay(100)
  connected,    \* the worker process's Redis client has not been quit
  completedEvents, \* the `completed` events the workers have emitted
  \* ---- environment and history
  now,          \* Date.now()
  invocations,  \* per id: how often processFn was invoked with it
  removedActive, \* ids removed by removeJob while their handler was running
  fresh,        \* per id: the job Queue.add returned, until its record is
                \* rewritten by a worker or deleted
  lastControl,  \* the last two of the Queue.pause/Queue.resume calls
  \* ---- a calculateBackoff call
  backoffCall,  \* its arguments and its result
  \* ---- one process with a Queue and Workers on one endpoint (redis.ts)
  instances,    \* RedisConnection.instances: the client cached for the key, or 0
  created,      \* number of `new IORedis(...)` so far
  live,         \* clients created and not quit
  workerQuit,   \* clients a Worker.close() has quit
  pending,      \* per holder: the client its createClient call waits for, or 0
  client,       \* per holder: its `this.client`, or 0
  closedHolders, \* holders whose close() has run
  quitError     \* a quit() on a closed client has rejected

redisVars == <<waiting, active, delayed, data, startedAt, paused>>
queueVars == <<nextId, removing, removeResult>>
workerVars == <<isRunning, processFn, nloops, dloop, ploop, tasks, abandoned>>
closeVars == <<promoted, closing, connected, completedEvents>>
registryVars == <<instances, created, live, workerQuit, pending, client,
                  closedHolders, quitError>>
vars == <<waiting, active, delayed, data, startedAt, paused, nextId, removing,
          removeResult, got,
          isRunning, processFn, nloops, dloop, ploop, tasks, abandoned,
          promoted, closing, connected, completedEvents,
          now, invocations, removedActive, fresh, lastControl,
          backoffCall,
          instances, created, live, workerQuit, pending, client, closedHolders,
          quitError>>

(* ----------------------------- Redis commands ------------------------- *)

Range(s) == {s[i] : i \in 1..Len(s)}

\* LPUSH key id
LPush(list, id) == <<id>> \o list

\* LREM key 0 id: every occurrence of id is removed
LRem(list, id) == SelectSeq(list, LAMBDA x : x # id)

\* ZADD key score id: inserts id or updates its score
ZAdd(zset, score, id) ==
  [k \in DOMAIN zset \cup {id} |-> IF k = id THEN score ELSE zset[k]]

\* ZREM key id
ZRem(zset, id) == [k \in DOMAIN zset \ {id} |-> zset[k]]

\* variant: the hash outlives the DEL
HDelKeeps(h, id) == h

\* DEL / HSET of the `data` field of a job hash
HDel(h, id) == [k \in DOMAIN h \ {id} |-> h[k]]
HSet(h, id, job) == [k \in DOMAIN h \cup {id} |-> IF k = id THEN job ELSE h[k]]

\* Number of occurrences of id in a list
Count(list, id) == Cardinality({i \in 1..Len(list) : list[i] = id})

\* Occurrences of id over the three collections
Occurrences(id) ==
  Count(waiting, id) + Count(active, id) + (IF id \in DOMAIN delayed THEN 1 ELSE 0)

(* ------------------------------- job options -------------------------- *)

\* JobOptions; an absent numeric option is 0 and an absent flag FALSE, which
\* the code cannot tell apart (`x || default`, truthiness tests).
NoBackoff == [type |-> "none", delay |-> 0]

Options(att, to, roc, rof, dl, bo) ==
  [attempts |-> att, timeout |-> to, removeOnComplete |-> roc,
   removeOnFail |-> rof, delay |-> dl, backoff |-> bo]

\* The option objects producers pass to Queue.add
OptionChoices ==
  { Options(0, 0, FALSE, FALSE, 0, NoBackoff),
    Options(MaxAttempts, 1, FALSE, FALSE, 0, NoBackoff),
    Options(MaxAttempts, 0, TRUE, TRUE, 1, [type |-> "fixed", delay |-> 0]) }

\* The option objects of the producer API runs: none, a negative delay that
\* reaches back before the epoch (delay < -Date.now()), and retries with
\* removal and a delay
QueueOptionChoices ==
  { Options(0, 0, FALSE, FALSE, 0, NoBackoff),
    Options(0, 0, FALSE, FALSE, -(MaxTime + 1), NoBackoff),
    Options(MaxAttempts, 0, TRUE, TRUE, 1, [type |-> "fixed", delay |-> 0]) }

\* The option objects of the runs with close(): none, and retries with
\* removal and a delay
CloseOptionChoices ==
  { Options(0, 0, FALSE, FALSE, 0, NoBackoff),
    Options(MaxAttempts, 0, TRUE, TRUE, 1, [type |-> "fixed", delay |-> 0]) }

\* The Queue instances (producers) of one queue and the defaultJobOptions
\* each was constructed with: `options.defaultJobOptions || {}`
Queues == {"q1", "q2"}

defaultJobOptions ==
  [q \in Queues |-> IF q = "q1" THEN Options(0, 0, FALSE, FALSE, 0, NoBackoff)
                    ELSE Options(0, 0, FALSE, FALSE, 1, NoBackoff)]

\* { ...defaultJobOptions, ...options }: a key the call passes wins
MergeOptions(defaults, options) ==
  [attempts |-> IF options.attempts # 0 THEN options.attempts ELSE defaults.attempts,
   timeout |-> IF options.timeout # 0 THEN options.timeout ELSE defaults.timeout,
   removeOnComplete |-> options.removeOnComplete \/ defaults.removeOnComplete,
   removeOnFail |-> options.removeOnFail \/ defaults.removeOnFail,
   delay |-> IF options.delay # 0 THEN options.delay ELSE defaults.delay,
   backoff |-> IF options.backoff # NoBackoff THEN options.backoff ELSE defaults.backoff]

(* ------------------------------- job payloads ------------------------- *)

\* JavaScript values a producer passes as `data`: a plain object and a Date
ObjectPayload == [type |-> "object", val |-> "foo:bar"]
Payloads ==
  { ObjectPayload, [type |-> "Date", val |-> "2024-01-01T00:00:00.000Z"] }

\* variant: the payload is stringified on its own before the job is
JsonValueText(v) == [type |-> "string", val |-> v.val]

\* JSON.parse(JSON.stringify(v)): a Date comes back as its ISO string, NaN
\* as null; objects of JSON values, strings and finite numbers come back equal.
JsonValue(v) ==
  CASE v.type = "Date" -> [type |-> "string", val |-> v.val]
    [] v.type = "number" /\ v.val = "NaN" -> [type |-> "null", val |-> "null"]
    [] OTHER -> v

\* JSON.parse(JSON.stringify(job)): what a reader of the hash gets back for
\* the job object that was written
JsonJob(job) == [job EXCEPT !.data = JsonValue(@)]

(* ------------------------------- backoff.ts --------------------------- *)

RECURSIVE Pow2(_)
Pow2(n) == IF n <= 0 THEN 1 ELSE 2 * Pow2(n - 1)

calculateBackoff(attempts, opts) ==
  IF opts.backoff.type = "none" THEN 0
  ELSE LET delay == IF opts.backoff.delay = 0 THEN DefaultBackoffDelay
                    ELSE opts.backoff.delay
       IN CASE opts.backoff.type = "exponential" -> delay * Pow2(attempts - 1)
            [] opts.backoff.type = "fixed" -> delay
            [] OTHER -> 0

\* calculateBackoff(attempts, opts) is called and returns
NotReturned == -1
NoCall == [attempts |-> 1, opts |-> Options(0, 0, FALSE, FALSE, 0, NoBackoff),
           result |-> NotReturned]

calculateBackoffCall ==
  /\ backoffCall.result = NotReturned
  /\ backoffCall' = [backoffCall EXCEPT
                       !.result = calculateBackoff(backoffCall.attempts, backoffCall.opts)]
  /\ UNCHANGED <<redisVars, queueVars, workerVars, closeVars, registryVars, got, now,
                 invocations, removedActive, fresh, lastControl>>

\* The arguments: attempts >= 1 and a backoff of every type, one of them a
\* type the switch does not know, with delays from 0
BackoffTypes == {"fixed", "exponential", "linear"}
BackoffInputs ==
  {[attempts |-> a, opts |-> Options(0, 0, FALSE, FALSE, 0, bo), result |-> NotReturned] :
     a \in 1..MaxBackoffAttempts,
     bo \in {NoBackoff} \cup [type : BackoffTypes, delay : 0..MaxBackoffDelay]}

(* ------------------------------- scripts.ts --------------------------- *)

\* RPOP waitingKey: the id at the tail, and the list without it
RPopId(list) == list[Len(list)]
\* variant: the script reads the tail of the list and leaves it there
RPopRestPeek(list) == list

RPopRest(list) == SubSeq(list, 1, Len(list) - 1)

\* ZRANGEBYSCORE delayedKey 0 timestamp, ascending by (score, member)
DueIds(zset, timestamp) ==
  {j \in DOMAIN zset : zset[j] >= 0 /\ zset[j] <= timestamp}

RECURSIVE ByScore(_, _)
ByScore(zset, S) ==
  IF S = {} THEN <<>>
  ELSE LET first == CHOOSE j \in S : \A k \in S :
                       zset[j] < zset[k] \/ (zset[j] = zset[k] /\ j <= k)
       IN <<first>> \o ByScore(zset, S \ {first})

ZRangeByScore(zset, timestamp) == ByScore(zset, DueIds(zset, timestamp))

RECURSIVE LPushAll(_, _)
LPushAll(list, ids) ==
  IF ids = <<>> THEN list ELSE LPushAll(LPush(list, Head(ids)), Tail(ids))

RECURSIVE ZRemAll(_, _)
ZRemAll(zset, ids) ==
  IF ids = <<>> THEN zset ELSE ZRemAll(ZRem(zset, Head(ids)), Tail(ids))

(* -------------------------------- Queue.ts ---------------------------- *)

\* A job variable before a record was read into it
NoJob == [status |-> "none", attemptsMade |-> 0, failedReason |-> NoValue,
          returnValue |-> NoValue, options |-> Options(0, 0, FALSE, FALSE, 0, NoBackoff),
          data |-> ObjectPayload]

\* Queue.add(name, data, options) on a ready queue: the job object, then one
\* MULTI/EXEC with HSET and LPUSH or ZADD.  The status is taken from the
\* call's own `options.delay`, the stored options are the merged ones.
NewJob(q, payload, options) ==
  [status |-> IF options.delay # 0 THEN "delayed" ELSE "waiting",
   attemptsMade |-> 0, failedReason |-> NoValue, returnValue |-> NoValue,
   options |-> MergeOptions(defaultJobOptions[q], options),
   data |-> payload]

add(q, payload, options) ==
  /\ nextId <= MaxJobs
  /\ LET id == nextId
         job == NewJob(q, payload, options)
     IN /\ data' = HSet(data, id, JsonJob(job))
        /\ fresh' = HSet(fresh, id, job)
        /\ IF job.status = "delayed"
           THEN /\ delayed' = ZAdd(delayed, now + options.delay, id)
                /\ UNCHANGED waiting
           ELSE /\ waiting' = LPush(waiting, id)
                /\ UNCHANGED delayed
  /\ nextId' = nextId + 1
  /\ UNCHANGED <<active, startedAt, paused, removing, removeResult, now,
                 invocations, removedActive>>
  /\ UNCHANGED workerVars
  /\ UNCHANGED <<got, promoted, closing, connected, completedEvents, lastControl>>
  /\ UNCHANGED <<backoffCall, registryVars>>

\* Queue.getJob(id): HGET, then JobError when the hash has no `data` field,
\* else the parsed record
getJob(id) ==
  /\ got' = IF id \in DOMAIN data
            THEN [id |-> id, kind |-> "job", job |-> data[id]]
            ELSE [id |-> id, kind |-> "JobError", job |-> NoJob]
  /\ UNCHANGED <<redisVars, queueVars, workerVars, closeVars, now, invocations,
                 removedActive, fresh, lastControl>>
  /\ UNCHANGED <<backoffCall, registryVars>>

\* Queue.removeJob(id), first half: `await this.getJob(jobId)`, which throws
\* JobError when the hash has no `data` field; removeJob passes the error on.
removeJobGet(id) ==
  /\ removing = 0
  /\ IF id \in DOMAIN data
     THEN /\ removing' = id
          /\ UNCHANGED removeResult
     ELSE /\ removeResult' = "JobError"
          /\ UNCHANGED removing
  /\ UNCHANGED <<redisVars, nextId, now, invocations, removedActive>>
  /\ UNCHANGED workerVars
  /\ UNCHANGED <<got, promoted, closing, connected, completedEvents, fresh, lastControl>>
  /\ UNCHANGED <<backoffCall, registryVars>>

\* Queue.removeJob(id), second half: the MULTI/EXEC with LREM, LREM, ZREM, DEL.
removeJobExec(id) ==
  /\ removing = id
  /\ waiting' = LRem(waiting, id)
  /\ active' = LRem(active, id)
  /\ delayed' = ZRem(delayed, id)
  /\ data' = HDel(data, id)
  /\ fresh' = HDel(fresh, id)
  /\ startedAt' = startedAt \ {id}
  /\ removing' = 0
  /\ removeResult' = "returned"
  /\ removedActive' =
       IF \E t \in tasks : t.id = id /\ t.pc = "handler"
       THEN removedActive \cup {id} ELSE removedActive
  /\ UNCHANGED <<paused, nextId, now, invocations>>
  /\ UNCHANGED workerVars
  /\ UNCHANGED <<got, promoted, closing, connected, completedEvents, lastControl>>
  /\ UNCHANGED <<backoffCall, registryVars>>

\* The last two control calls, after one more
Called(call) == [prev |-> lastControl.last, last |-> call]

\* Queue.pause(): SET P:Q:paused 1
QueuePause ==
  /\ paused' = TRUE
  /\ lastControl' = Called("pause")
  /\ UNCHANGED <<waiting, active, delayed, data, startedAt, queueVars, now,
                 invocations, removedActive>>
  /\ UNCHANGED workerVars
  /\ UNCHANGED <<got, promoted, closing, connected, completedEvents, fresh>>
  /\ UNCHANGED <<backoffCall, registryVars>>

\* variant: resume() leaves the key in place
QueueResumeKeepsKey ==
  /\ lastControl' = Called("resume")
  /\ UNCHANGED <<redisVars, queueVars, workerVars, closeVars, got, now,
                 invocations, removedActive, fresh>>
  /\ UNCHANGED <<backoffCall, registryVars>>

\* Queue.resume(): DEL P:Q:paused
QueueResume ==
  /\ paused' = FALSE
  /\ lastControl' = Called("resume")
  /\ UNCHANGED <<waiting, active, delayed, data, startedAt, queueVars, now,
                 invocations, removedActive>>
  /\ UNCHANGED workerVars
  /\ UNCHANGED <<got, promoted, closing, connected, completedEvents, fresh>>
  /\ UNCHANGED <<backoffCall, registryVars>>

\* Queue.isPaused(): Boolean(GET P:Q:paused)
isPaused == paused

(* -------------------------------- Worker.ts --------------------------- *)

\* `processedJobsCount >= this.maxJobsPerWorker`, never true of Infinity
Reached(w, count) == maxJobsPerWorker[w] # 0 /\ count >= maxJobsPerWorker[w]

\* processedJobsCount after it was raised to `count`.  The code only compares
\* it with maxJobsPerWorker, so it is kept up to that value, and not at all
\* when maxJobsPerWorker is Infinity.
Counted(w, count) ==
  IF maxJobsPerWorker[w] = 0 THEN 0
  ELSE IF count >= maxJobsPerWorker[w] THEN maxJobsPerWorker[w] ELSE count

\* A worker process whose dispatcher spins.  processJobs() puts
\* jobPromise.finally(...) into activeJobs and its callback deletes jobPromise,
\* which is not a member: the set never shrinks.  Once it holds `concurrency`
\* promises and one of them has settled, `while (activeJobs.size >=
\* concurrency) await Promise.race(activeJobs)` resolves in a microtask on
\* every turn, so the process never gets back to its event loop: no timer, no
\* response and no API call of that process runs again.
Frozen(w) ==
  \E l \in Loops : dloop[w][l].pc = "race" /\ dloop[w][l].settled > 0

\* Where processJobs() suspends next, from the test of its outer `while`:
\* Promise.all when the test fails, Promise.race at the concurrency limit,
\* else getNextJob(): the moveToActive call, or delay(100) with no processFn.
\* A loop whose count has reached maxJobsPerWorker stays at Promise.all
\* ("drain") until processJobsEnd takes it on; a moveToActive call on a client
\* that was quit rejects, which is caught and followed by delay(100).
LoopTop(w, running, hasFn, loop) ==
  IF Reached(w, loop.count) THEN [loop EXCEPT !.pc = "drain"]
  ELSE IF ~running
  THEN [loop EXCEPT !.pc = IF loop.settled = loop.activeJobs THEN "done" ELSE "drain"]
  ELSE IF loop.activeJobs >= concurrency[w] THEN [loop EXCEPT !.pc = "race"]
  ELSE IF hasFn /\ connected[w] THEN [loop EXCEPT !.pc = "mta"]
  ELSE [loop EXCEPT !.pc = "sleep"]

NewLoop == [pc |-> "none", activeJobs |-> 0, settled |-> 0, count |-> 0]

RECURSIVE SumLoops(_)
SumLoops(S) ==
  IF S = {} THEN 0
  ELSE LET w == CHOOSE x \in S : TRUE IN nloops[w] + SumLoops(S \ {w})

LoopsStarted == SumLoops(Workers)

\* processJobs() and processDelayedJobs() are started, each up to its first await
StartLoops(w, hasFn) ==
  LET l == nloops[w] + 1
  IN /\ nloops' = [nloops EXCEPT ![w] = l]
     /\ dloop' = [dloop EXCEPT ![w][l] = LoopTop(w, TRUE, hasFn, NewLoop)]
     /\ ploop' = [ploop EXCEPT ![w][l] = IF connected[w] THEN "pd" ELSE "err"]

\* Worker.process(processFn)
process(w) ==
  /\ ~Frozen(w)
  /\ ~processFn[w]
  /\ LoopsStarted < MaxLoops
  /\ processFn' = [processFn EXCEPT ![w] = TRUE]
  /\ isRunning' = [isRunning EXCEPT ![w] = TRUE]
  /\ StartLoops(w, TRUE)
  /\ UNCHANGED <<redisVars, queueVars, tasks, abandoned, now, invocations,
                 removedActive>>
  /\ UNCHANGED <<got, promoted, closing, connected, completedEvents, fresh, lastControl>>
  /\ UNCHANGED <<backoffCall, registryVars>>

\* Worker.pause()
WorkerPause(w) ==
  /\ ~Frozen(w)
  /\ isRunning[w]
  /\ isRunning' = [isRunning EXCEPT ![w] = FALSE]
  /\ UNCHANGED <<redisVars, queueVars, processFn, nloops, dloop, ploop, tasks,
                 abandoned, now, invocations, removedActive>>
  /\ UNCHANGED <<got, promoted, closing, connected, completedEvents, fresh, lastControl>>
  /\ UNCHANGED <<backoffCall, registryVars>>

\* Worker.resume()
WorkerResume(w) ==
  /\ ~Frozen(w)
  /\ ~isRunning[w]
  /\ LoopsStarted < MaxLoops
  /\ isRunning' = [isRunning EXCEPT ![w] = TRUE]
  /\ StartLoops(w, processFn[w])
  /\ UNCHANGED <<redisVars, queueVars, processFn, tasks, abandoned, now,
                 invocations, removedActive>>
  /\ UNCHANGED <<got, promoted, closing, connected, completedEvents, fresh, lastControl>>
  /\ UNCHANGED <<backoffCall, registryVars>>

\* The promise of a processJob() call settles: it stays in its loop's
\* activeJobs; a Promise.all waiting for the last one returns.
Settled(w, loop) ==
  LET n == loop.settled + 1
  IN [loop EXCEPT !.settled = n,
                  !.pc = IF loop.pc = "drain" /\ n = loop.activeJobs
                            /\ ~Reached(w, loop.count)
                         THEN "done" ELSE loop.pc]

Settle(t) ==
  /\ tasks' = tasks \ {t}
  /\ dloop' = [dloop EXCEPT ![t.w][t.l] = Settled(t.w, dloop[t.w][t.l])]

NewTask(w, l, n, id) ==
  [w |-> w, l |-> l, n |-> n, id |-> id, pc |-> "hget", job |-> NoJob,
   reason |-> NoValue, result |-> NoValue, score |-> 0]

\* getNextJob(): the moveToActive script runs on the server; on its answer
\* processJobs() either sleeps delay(100) (nil) or counts the job, starts
\* processJob(jobId) up to its HGET and adds the promise to activeJobs; then
\* it goes round its loop.  The step ends at the loop's next await.  In a
\* frozen process the script still runs but its answer is never read.  On a
\* client that was quit in between, the HGET of processJob rejects, then the
\* HGET of failJob: the promise settles at once with the id left in active.
getNextJob(w, l) ==
  /\ dloop[w][l].pc = "mta"
  /\ IF waiting = <<>>
     THEN /\ dloop' = [dloop EXCEPT ![w][l] =
                 IF Frozen(w) THEN [@ EXCEPT !.pc = "lost"]
                 ELSE LoopTop(w, isRunning[w], processFn[w], @)]
          /\ UNCHANGED <<waiting, active, startedAt, tasks>>
     ELSE LET jobId == RPopId(waiting)
              n == dloop[w][l].activeJobs + 1
          IN /\ waiting' = RPopRest(waiting)
             /\ active' = LPush(active, jobId)
             /\ startedAt' = startedAt \cup {jobId}
             /\ IF Frozen(w)
                THEN /\ dloop' = [dloop EXCEPT ![w][l].pc = "lost"]
                     /\ UNCHANGED tasks
                ELSE LET counted == [dloop[w][l] EXCEPT
                                        !.activeJobs = n,
                                        !.count = Counted(w, @ + 1)]
                     IN IF connected[w]
                        THEN /\ tasks' = tasks \cup {NewTask(w, l, n, jobId)}
                             /\ dloop' = [dloop EXCEPT ![w][l] =
                                  LoopTop(w, isRunning[w], processFn[w], counted)]
                        ELSE /\ UNCHANGED tasks
                             /\ dloop' = [dloop EXCEPT ![w][l] =
                                  LoopTop(w, isRunning[w], processFn[w],
                                          Settled(w, counted))]
  /\ UNCHANGED <<delayed, data, paused, queueVars, isRunning, processFn, nloops,
                 ploop, abandoned, now, invocations, removedActive>>
  /\ UNCHANGED <<got, promoted, closing, connected, completedEvents, fresh, lastControl>>
  /\ UNCHANGED <<backoffCall, registryVars>>

\* delay(100) of a processJobs() that found no processFn is over
DispatcherWake(w, l) ==
  /\ ~Frozen(w)
  /\ dloop[w][l].pc = "sleep"
  /\ dloop' = [dloop EXCEPT ![w][l] = LoopTop(w, isRunning[w], processFn[w], dloop[w][l])]
  /\ UNCHANGED <<redisVars, queueVars, isRunning, processFn, nloops, ploop, tasks,
                 abandoned, now, invocations, removedActive>>
  /\ UNCHANGED <<got, promoted, closing, connected, completedEvents, fresh, lastControl>>
  /\ UNCHANGED <<backoffCall, registryVars>>

\* One more turn of the spinning `while`: nothing changes
Spin(w, l) ==
  /\ dloop[w][l].pc = "race"
  /\ dloop[w][l].settled > 0
  /\ UNCHANGED vars

\* processJob(jobId) after its HGET: an absent record ends the task silently;
\* otherwise the job is parsed, marked active and handed to processFn, under
\* withTimeout when options.timeout > 0.
processJob(t) ==
  /\ t \in tasks
  /\ t.pc = "hget"
  /\ ~Frozen(t.w)
  /\ IF t.id \notin DOMAIN data
     THEN /\ Settle(t)
          /\ UNCHANGED invocations
     ELSE /\ tasks' = (tasks \ {t}) \cup
                {[t EXCEPT !.pc = "handler",
                           !.job = [data[t.id] EXCEPT !.status = "active"]]}
          /\ invocations' = [invocations EXCEPT ![t.id] = @ + 1]
          /\ UNCHANGED dloop
  /\ UNCHANGED <<redisVars, queueVars, isRunning, processFn, nloops, ploop,
                 abandoned, now, removedActive>>
  /\ UNCHANGED <<got, promoted, closing, connected, completedEvents, fresh, lastControl>>
  /\ UNCHANGED <<backoffCall, registryVars>>

\* variant: the record written on success is built afresh
CompletedJobFresh(job, result) ==
  [job EXCEPT !.status = "completed", !.returnValue = result, !.attemptsMade = 0]

\* completeJob(job, result) up to its `await multi.exec()`
CompletedJob(job, result) ==
  [job EXCEPT !.status = "completed", !.returnValue = result]

\* The handler's promise resolves with `result` before any timer fired.  On
\* a client that was quit, multi.exec() rejects, processJob's catch calls
\* failJob, whose HGET rejects too: the task ends with an `error` event.
HandlerResolves(t, result) ==
  /\ t \in tasks
  /\ t.pc = "handler"
  /\ ~Frozen(t.w)
  /\ IF connected[t.w]
     THEN /\ tasks' = (tasks \ {t}) \cup
               {[t EXCEPT !.pc = "complete", !.job = CompletedJob(t.job, result),
                          !.result = result]}
          /\ UNCHANGED dloop
     ELSE Settle(t)
  /\ UNCHANGED <<redisVars, queueVars, isRunning, processFn, nloops, ploop,
                 abandoned, now, invocations, removedActive>>
  /\ UNCHANGED <<got, promoted, closing, connected, completedEvents, fresh, lastControl>>
  /\ UNCHANGED <<backoffCall, registryVars>>

\* The handler's promise rejects before any timer fired: failJob(jobId, error)
\* up to its HGET, which rejects on a client that was quit
HandlerRejects(t) ==
  /\ t \in tasks
  /\ t.pc = "handler"
  /\ ~Frozen(t.w)
  /\ IF connected[t.w]
     THEN /\ tasks' = (tasks \ {t}) \cup
               {[t EXCEPT !.pc = "fail_hget", !.reason = HandlerError]}
          /\ UNCHANGED dloop
     ELSE Settle(t)
  /\ UNCHANGED <<redisVars, queueVars, isRunning, processFn, nloops, ploop,
                 abandoned, now, invocations, removedActive>>
  /\ UNCHANGED <<got, promoted, closing, connected, completedEvents, fresh, lastControl>>
  /\ UNCHANGED <<backoffCall, registryVars>>

\* withTimeout: the timer wins the race; the promise rejects with 'Job timeout'
\* and the handler's own promise is left running.
TimerFires(t) ==
  /\ t \in tasks
  /\ t.pc = "handler"
  /\ t.job.options.timeout > 0
  /\ ~Frozen(t.w)
  /\ IF connected[t.w]
     THEN /\ tasks' = (tasks \ {t}) \cup
               {[t EXCEPT !.pc = "fail_hget", !.reason = JobTimeout]}
          /\ UNCHANGED dloop
     ELSE Settle(t)
  /\ abandoned' = abandoned \cup {<<t.w, t.id>>}
  /\ UNCHANGED <<redisVars, queueVars, isRunning, processFn, nloops, ploop,
                 now, invocations, removedActive>>
  /\ UNCHANGED <<got, promoted, closing, connected, completedEvents, fresh, lastControl>>
  /\ UNCHANGED <<backoffCall, registryVars>>

\* variant: the late result of the handler is still written as a completion
AbandonedSettlesWrites(w, id) ==
  /\ <<w, id>> \in abandoned
  /\ ~Frozen(w)
  /\ abandoned' = abandoned \ {<<w, id>>}
  /\ data' = IF id \in DOMAIN data
             THEN HSet(data, id, [data[id] EXCEPT !.status = "completed"])
             ELSE data
  /\ UNCHANGED <<waiting, active, delayed, startedAt, paused, queueVars, isRunning,
                 processFn, nloops, dloop, ploop, tasks, now, invocations,
                 removedActive>>
  /\ UNCHANGED <<got, promoted, closing, connected, completedEvents, fresh, lastControl>>
  /\ UNCHANGED <<backoffCall, registryVars>>

\* withTimeout: the handler settles after its timer fired; clearTimeout and
\* resolve/reject on the settled promise do nothing.
AbandonedSettles(w, id) ==
  /\ <<w, id>> \in abandoned
  /\ ~Frozen(w)
  /\ abandoned' = abandoned \ {<<w, id>>}
  /\ UNCHANGED <<redisVars, queueVars, isRunning, processFn, nloops, dloop, ploop,
                 tasks, now, invocations, removedActive>>
  /\ UNCHANGED <<got, promoted, closing, connected, completedEvents, fresh, lastControl>>
  /\ UNCHANGED <<backoffCall, registryVars>>

\* variant: the completion transaction leaves the id in the active list
ActiveAfterCompleteKept(list, id) == list

\* completeJob: the MULTI/EXEC runs: LREM active, then DEL or HSET
ActiveAfterComplete(list, id) == LRem(list, id)

completeJob(t) ==
  /\ t \in tasks
  /\ t.pc = "complete"
  /\ active' = ActiveAfterComplete(active, t.id)
  /\ fresh' = HDel(fresh, t.id)
  /\ IF t.job.options.removeOnComplete
     THEN /\ data' = HDel(data, t.id)
          /\ startedAt' = startedAt \ {t.id}
     ELSE /\ data' = HSet(data, t.id, t.job)
          /\ UNCHANGED startedAt
  /\ Settle(t)
  /\ UNCHANGED <<waiting, delayed, paused, queueVars, isRunning, processFn, nloops,
                 ploop, abandoned, now, invocations, removedActive>>
  /\ UNCHANGED <<got, promoted, closing, connected, completedEvents, lastControl>>
  /\ UNCHANGED <<backoffCall, registryVars>>

\* job.options.attempts || 1
AttemptsOf(options) == IF options.attempts = 0 THEN 1 ELSE options.attempts

\* variant: the comparison lets one more attempt through
ShouldRetryInclusive(job) == job.attemptsMade <= AttemptsOf(job.options)

\* failJob: `job.attemptsMade < (job.options.attempts || 1)`
ShouldRetry(job) ==
  job.attemptsMade < AttemptsOf(job.options)

\* failJob: the record read, with the failure counted and recorded
FailedAttempt(job, reason) ==
  [job EXCEPT !.attemptsMade = @ + 1, !.failedReason = reason]

\* failJob(jobId, error) after its HGET: an absent record ends the task;
\* otherwise the retry or the terminal MULTI is built and sent, which rejects
\* on a client that was quit.
failJobRead(t) ==
  /\ t \in tasks
  /\ t.pc = "fail_hget"
  /\ ~Frozen(t.w)
  /\ IF t.id \notin DOMAIN data \/ ~connected[t.w]
     THEN Settle(t)
     ELSE LET job == FailedAttempt(data[t.id], t.reason)
          IN /\ tasks' = (tasks \ {t}) \cup
                  {IF ShouldRetry(job)
                   THEN [t EXCEPT !.pc = "fail_retry",
                                  !.job = [job EXCEPT !.status = "delayed"],
                                  !.score = now + calculateBackoff(job.attemptsMade, job.options)]
                   ELSE [t EXCEPT !.pc = "fail_final",
                                  !.job = [job EXCEPT !.status = "failed"]]}
             /\ UNCHANGED dloop
  /\ UNCHANGED <<redisVars, queueVars, isRunning, processFn, nloops, ploop,
                 abandoned, now, invocations, removedActive>>
  /\ UNCHANGED <<got, promoted, closing, connected, completedEvents, fresh, lastControl>>
  /\ UNCHANGED <<backoffCall, registryVars>>

\* variant: the retry transaction leaves the id in the active list
ActiveAfterRetryKept(list, id) == list

\* failJob, retry branch: the MULTI/EXEC runs: ZADD delayed, HSET, LREM active
ActiveAfterRetry(list, id) == LRem(list, id)

failJobRetry(t) ==
  /\ t \in tasks
  /\ t.pc = "fail_retry"
  /\ delayed' = ZAdd(delayed, t.score, t.id)
  /\ data' = HSet(data, t.id, t.job)
  /\ active' = ActiveAfterRetry(active, t.id)
  /\ fresh' = HDel(fresh, t.id)
  /\ Settle(t)
  /\ UNCHANGED <<waiting, startedAt, paused, queueVars, isRunning, processFn,
                 nloops, ploop, abandoned, now, invocations, removedActive>>
  /\ UNCHANGED <<got, promoted, closing, connected, completedEvents, lastControl>>
  /\ UNCHANGED <<backoffCall, registryVars>>

\* variant: the terminal transaction leaves the id in the active list
ActiveAfterFinalKept(list, id) == list

\* failJob, terminal branch: the MULTI/EXEC runs: LREM active, then DEL or HSET
ActiveAfterFinal(list, id) == LRem(list, id)

failJobFinal(t) ==
  /\ t \in tasks
  /\ t.pc = "fail_final"
  /\ active' = ActiveAfterFinal(active, t.id)
  /\ fresh' = HDel(fresh, t.id)
  /\ IF t.job.options.removeOnFail
     THEN /\ data' = HDel(data, t.id)
          /\ startedAt' = startedAt \ {t.id}
     ELSE /\ data' = HSet(data, t.id, t.job)
          /\ UNCHANGED startedAt
  /\ Settle(t)
  /\ UNCHANGED <<waiting, delayed, paused, queueVars, isRunning, processFn, nloops,
                 ploop, abandoned, now, invocations, removedActive>>
  /\ UNCHANGED <<got, promoted, closing, connected, completedEvents, lastControl>>
  /\ UNCHANGED <<backoffCall, registryVars>>

\* One turn of processDelayedJobs(): the processDelayed script runs on the
\* server, the ids it returns are counted, then delay(1000), the `while` test
\* and the next call.  In a frozen process the script still runs but its
\* answer is never read.  A count that has reached maxJobsPerWorker leaves
\* the loop for its closing part ("end"); a call on a client that was quit
\* rejects and is repeated every 1000 ms ("err").
processDelayedJobs(w, l) ==
  /\ ploop[w][l] = "pd"
  /\ LET jobs == ZRangeByScore(delayed, now)
         count == IF Frozen(w) THEN promoted[w][l]
                  ELSE Counted(w, promoted[w][l] + Len(jobs))
     IN /\ delayed' = ZRemAll(delayed, jobs)
        /\ waiting' = LPushAll(waiting, jobs)
        /\ promoted' = [promoted EXCEPT ![w][l] = count]
        /\ ploop' = [ploop EXCEPT ![w][l] =
             IF Frozen(w) THEN "lost"
             ELSE IF Reached(w, count) THEN "end"
             ELSE IF ~isRunning[w] THEN "done"
             ELSE IF connected[w] THEN "pd" ELSE "err"]
  /\ UNCHANGED <<active, data, startedAt, paused, queueVars, isRunning, processFn,
                 nloops, dloop, tasks, abandoned, now, invocations, removedActive>>
  /\ UNCHANGED <<got, closing, connected, completedEvents, fresh, lastControl>>
  /\ UNCHANGED <<backoffCall, registryVars>>

\* The `completed` event with the summary message of a loop that stopped at
\* maxJobsPerWorker
SummaryEvent(w) == [w |-> w, id |-> 0, result |-> "Processed maximum number of jobs"]

\* processJobs() after its loop: Promise.all(activeJobs) has resolved and the
\* count has reached maxJobsPerWorker: emit `completed`, then close() up to
\* its delay(100)
processJobsEnd(w, l) ==
  /\ ~Frozen(w)
  /\ dloop[w][l].pc = "drain"
  /\ dloop[w][l].settled = dloop[w][l].activeJobs
  /\ Reached(w, dloop[w][l].count)
  /\ dloop' = [dloop EXCEPT ![w][l].pc = "done"]
  /\ completedEvents' = completedEvents \cup {SummaryEvent(w)}
  /\ isRunning' = [isRunning EXCEPT ![w] = FALSE]
  /\ closing' = [closing EXCEPT ![w] = TRUE]
  /\ UNCHANGED <<redisVars, queueVars, processFn, nloops, ploop, tasks, abandoned,
                 promoted, connected, got, now, invocations, removedActive, fresh,
                 lastControl>>
  /\ UNCHANGED <<backoffCall, registryVars>>

\* processDelayedJobs() after its loop, when its count has reached
\* maxJobsPerWorker: emit `completed`, then close() up to its delay(100)
processDelayedJobsEnd(w, l) ==
  /\ ~Frozen(w)
  /\ ploop[w][l] = "end"
  /\ ploop' = [ploop EXCEPT ![w][l] = "done"]
  /\ completedEvents' = completedEvents \cup {SummaryEvent(w)}
  /\ isRunning' = [isRunning EXCEPT ![w] = FALSE]
  /\ closing' = [closing EXCEPT ![w] = TRUE]
  /\ UNCHANGED <<redisVars, queueVars, processFn, nloops, dloop, tasks, abandoned,
                 promoted, connected, got, now, invocations, removedActive, fresh,
                 lastControl>>
  /\ UNCHANGED <<backoffCall, registryVars>>

\* Worker.close() up to its delay(100)
close(w) ==
  /\ ~Frozen(w)
  /\ isRunning' = [isRunning EXCEPT ![w] = FALSE]
  /\ closing' = [closing EXCEPT ![w] = TRUE]
  /\ UNCHANGED <<redisVars, queueVars, processFn, nloops, dloop, ploop, tasks,
                 abandoned, promoted, connected, completedEvents, got, now,
                 invocations, removedActive, fresh, lastControl>>
  /\ UNCHANGED <<backoffCall, registryVars>>

\* Worker.close() after its delay(100): client.quit().  Commands already sent
\* are answered; every later command of this process rejects.
clientQuit(w) ==
  /\ ~Frozen(w)
  /\ closing[w]
  /\ closing' = [closing EXCEPT ![w] = FALSE]
  /\ connected' = [connected EXCEPT ![w] = FALSE]
  /\ UNCHANGED <<redisVars, queueVars, isRunning, processFn, nloops, dloop, ploop,
                 tasks, abandoned, promoted, completedEvents, got, now,
                 invocations, removedActive, fresh, lastControl>>
  /\ UNCHANGED <<backoffCall, registryVars>>

\* The wall clock advances
Tick ==
  /\ now < MaxTime
  /\ now' = now + 1
  /\ UNCHANGED <<redisVars, queueVars, workerVars, invocations, removedActive>>
  /\ UNCHANGED <<got, promoted, closing, connected, completedEvents, fresh, lastControl>>
  /\ UNCHANGED <<backoffCall, registryVars>>

(* ----------------------------- specification -------------------------- *)

EmptyMap == [k \in {} |-> 0]

\* Everything but the arguments of the calculateBackoff call
InitQueue ==
  /\ waiting = <<>>
  /\ active = <<>>
  /\ delayed = EmptyMap
  /\ data = EmptyMap
  /\ startedAt = {}
  /\ paused = FALSE
  /\ nextId = 1
  /\ removing = 0
  /\ removeResult = "none"
  /\ isRunning = [w \in Workers |-> FALSE]
  /\ processFn = [w \in Workers |-> FALSE]
  /\ nloops = [w \in Workers |-> 0]
  /\ dloop = [w \in Workers |-> [l \in Loops |-> NewLoop]]
  /\ ploop = [w \in Workers |-> [l \in Loops |-> "none"]]
  /\ tasks = {}
  /\ abandoned = {}
  /\ now = 0
  /\ invocations = [j \in Ids |-> 0]
  /\ removedActive = {}
  /\ got = [id |-> 0, kind |-> "none", job |-> NoJob]
  /\ promoted = [w \in Workers |-> [l \in Loops |-> 0]]
  /\ closing = [w \in Workers |-> FALSE]
  /\ connected = [w \in Workers |-> TRUE]
  /\ completedEvents = {}
  /\ fresh = EmptyMap
  /\ lastControl = [prev |-> "none", last |-> "none"]
  /\ instances = 0
  /\ created = 0
  /\ live = {}
  /\ workerQuit = {}
  /\ pending = [h \in Holders |-> 0]
  /\ client = [h \in Holders |-> 0]
  /\ closedHolders = {}
  /\ quitError = FALSE

Init ==
  /\ InitQueue
  /\ backoffCall = NoCall

\* The two workers constructed without maxJobsPerWorker
Pool == {"w1", "w2"}

\* The queue at work: producers add and remove jobs while both workers, once
\* process() is called, dispatch, run, retry and promote.
Next ==
  \/ \E o \in OptionChoices : add("q1", ObjectPayload, o)
  \/ \E id \in Ids : removeJobGet(id)
  \/ \E id \in Ids : removeJobExec(id)
  \/ \E w \in Pool : process(w)
  \/ \E w \in Pool, l \in Loops : getNextJob(w, l)
  \/ \E w \in Pool, l \in Loops : Spin(w, l)
  \/ \E t \in tasks : processJob(t)
  \/ \E t \in tasks, r \in ReturnValues : HandlerResolves(t, r)
  \/ \E t \in tasks : HandlerRejects(t)
  \/ \E t \in tasks : TimerFires(t)
  \/ \E w \in Pool, id \in Ids : AbandonedSettles(w, id)
  \/ \E t \in tasks : completeJob(t)
  \/ \E t \in tasks : failJobRead(t)
  \/ \E t \in tasks : failJobRetry(t)
  \/ \E t \in tasks : failJobFinal(t)
  \/ \E w \in Pool, l \in Loops : processDelayedJobs(w, l)
  \/ Tick

Spec == Init /\ [][Next]_vars

\* The control calls: one worker (concurrency 1) that is paused and resumed
\* at any time, also before process(), and a queue that is paused and resumed.
Controlled == {"w1"}

NextControl ==
  \/ \E o \in OptionChoices : add("q1", ObjectPayload, o)
  \/ QueuePause
  \/ QueueResume
  \/ \E w \in Controlled : process(w)
  \/ \E w \in Controlled : WorkerPause(w)
  \/ \E w \in Controlled : WorkerResume(w)
  \/ \E w \in Controlled, l \in Loops : getNextJob(w, l)
  \/ \E w \in Controlled, l \in Loops : DispatcherWake(w, l)
  \/ \E w \in Controlled, l \in Loops : Spin(w, l)
  \/ \E t \in tasks : processJob(t)
  \/ \E t \in tasks, r \in ReturnValues : HandlerResolves(t, r)
  \/ \E t \in tasks : HandlerRejects(t)
  \/ \E t \in tasks : TimerFires(t)
  \/ \E w \in Controlled, id \in Ids : AbandonedSettles(w, id)
  \/ \E t \in tasks : completeJob(t)
  \/ \E t \in tasks : failJobRead(t)
  \/ \E t \in tasks : failJobRetry(t)
  \/ \E t \in tasks : failJobFinal(t)
  \/ \E w \in Controlled, l \in Loops : processDelayedJobs(w, l)
  \/ Tick

SpecControl == Init /\ [][NextControl]_vars

\* One worker that is started and then left alone (never paused, never
\* closed).  Every step of the worker is taken if it stays possible: Redis
\* answers, timers fire, and every handler settles.
NextLive ==
  \/ \E o \in OptionChoices : add("q1", ObjectPayload, o)
  \/ \E w \in Controlled : process(w)
  \/ \E w \in Controlled, l \in Loops : getNextJob(w, l)
  \/ \E w \in Controlled, l \in Loops : Spin(w, l)
  \/ \E t \in tasks : processJob(t)
  \/ \E t \in tasks, r \in ReturnValues : HandlerResolves(t, r)
  \/ \E t \in tasks : HandlerRejects(t)
  \/ \E t \in tasks : TimerFires(t)
  \/ \E w \in Controlled, id \in Ids : AbandonedSettles(w, id)
  \/ \E t \in tasks : completeJob(t)
  \/ \E t \in tasks : failJobRead(t)
  \/ \E t \in tasks : failJobRetry(t)
  \/ \E t \in tasks : failJobFinal(t)
  \/ \E w \in Controlled, l \in Loops : processDelayedJobs(w, l)
  \/ Tick

Fairness ==
  /\ WF_vars(\E w \in Controlled : process(w))
  /\ WF_vars(\E w \in Controlled, l \in Loops : getNextJob(w, l))
  /\ WF_vars(\E t \in tasks : processJob(t))
  /\ WF_vars(\E t \in tasks, r \in ReturnValues : HandlerResolves(t, r))
  /\ WF_vars(\E t \in tasks : completeJob(t))
  /\ WF_vars(\E t \in tasks : failJobRead(t))
  /\ WF_vars(\E t \in tasks : failJobRetry(t))
  /\ WF_vars(\E t \in tasks : failJobFinal(t))
  /\ WF_vars(\E w \in Controlled, l \in Loops : processDelayedJobs(w, l))
  /\ WF_vars(Tick)

SpecLive == Init /\ [][NextLive]_vars /\ Fairness

\* The worker with maxJobsPerWorker = 1 (concurrency 1), paused, resumed and
\* closed at any time.  Every step of the worker is taken if it stays
\* possible: Redis answers, delays end, and every handler settles.
Closing == {"w3"}

NextClose ==
  \/ \E o \in CloseOptionChoices : add("q1", ObjectPayload, o)
  \/ \E w \in Closing : process(w)
  \/ \E w \in Closing : WorkerPause(w)
  \/ \E w \in Closing : WorkerResume(w)
  \/ \E w \in Closing : close(w)
  \/ \E w \in Closing : clientQuit(w)
  \/ \E w \in Closing, l \in Loops : getNextJob(w, l)
  \/ \E w \in Closing, l \in Loops : DispatcherWake(w, l)
  \/ \E w \in Closing, l \in Loops : processJobsEnd(w, l)
  \/ \E t \in tasks : processJob(t)
  \/ \E t \in tasks, r \in ReturnValues : HandlerResolves(t, r)
  \/ \E t \in tasks : HandlerRejects(t)
  \/ \E t \in tasks : completeJob(t)
  \/ \E t \in tasks : failJobRead(t)
  \/ \E t \in tasks : failJobRetry(t)
  \/ \E t \in tasks : failJobFinal(t)
  \/ \E w \in Closing, l \in Loops : processDelayedJobs(w, l)
  \/ \E w \in Closing, l \in Loops : processDelayedJobsEnd(w, l)
  \/ Tick

FairnessClose ==
  /\ WF_vars(\E w \in Closing : clientQuit(w))
  /\ WF_vars(\E w \in Closing, l \in Loops : getNextJob(w, l))
  /\ WF_vars(\E w \in Closing, l \in Loops : DispatcherWake(w, l))
  /\ WF_vars(\E w \in Closing, l \in Loops : processJobsEnd(w, l))
  /\ WF_vars(\E t \in tasks : processJob(t))
  /\ WF_vars(\E t \in tasks, r \in ReturnValues : HandlerResolves(t, r))
  /\ WF_vars(\E t \in tasks : completeJob(t))
  /\ WF_vars(\E t \in tasks : failJobRead(t))
  /\ WF_vars(\E t \in tasks : failJobRetry(t))
  /\ WF_vars(\E t \in tasks : failJobFinal(t))
  /\ WF_vars(\E w \in Closing, l \in Loops : processDelayedJobs(w, l))
  /\ WF_vars(\E w \in Closing, l \in Loops : processDelayedJobsEnd(w, l))
  /\ WF_vars(Tick)

SpecClose == Init /\ [][NextClose]_vars /\ FairnessClose

\* The producer API: two Queue instances add jobs with any payload, read
\* them back and remove them, while one worker processes.
NextQueue ==
  \/ \E q \in Queues, p \in Payloads, o \in QueueOptionChoices : add(q, p, o)
  \/ \E id \in Ids : getJob(id)
  \/ \E id \in Ids : removeJobGet(id)
  \/ \E id \in Ids : removeJobExec(id)
  \/ \E w \in Controlled : process(w)
  \/ \E w \in Controlled, l \in Loops : getNextJob(w, l)
  \/ \E w \in Controlled, l \in Loops : Spin(w, l)
  \/ \E t \in tasks : processJob(t)
  \/ \E t \in tasks, r \in ReturnValues : HandlerResolves(t, r)
  \/ \E t \in tasks : HandlerRejects(t)
  \/ \E t \in tasks : completeJob(t)
  \/ \E t \in tasks : failJobRead(t)
  \/ \E t \in tasks : failJobRetry(t)
  \/ \E t \in tasks : failJobFinal(t)
  \/ \E w \in Controlled, l \in Loops : processDelayedJobs(w, l)
  \/ Tick

SpecQueue == Init /\ [][NextQueue]_vars

(* -------------------------------- redis.ts ---------------------------- *)

\* Everything outside the connection registry and its holders
restVars == <<redisVars, queueVars, workerVars, closeVars, got, now, invocations,
              removedActive, fresh, lastControl, backoffCall>>

WorkerHolders == Holders \ {"queue"}

\* RedisConnection.createClient(options), called by the constructor of holder
\* h through initialize(), up to its first await: the cached client is
\* returned, or a new IORedis is constructed and the call waits for `ready`.
createClient(h) ==
  /\ client[h] = 0 /\ pending[h] = 0
  /\ h \notin closedHolders
  /\ IF instances # 0
     THEN /\ client' = [client EXCEPT ![h] = instances]
          /\ UNCHANGED <<created, live, pending>>
     ELSE /\ created < MaxClients
          /\ created' = created + 1
          /\ live' = live \cup {created + 1}
          /\ pending' = [pending EXCEPT ![h] = created + 1]
          /\ UNCHANGED client
  /\ UNCHANGED <<instances, workerQuit, closedHolders, quitError, restVars>>

\* createClient after `ready`: instances.set(connectionKey, client); return
clientReady(h) ==
  /\ pending[h] # 0
  /\ instances' = pending[h]
  /\ client' = [client EXCEPT ![h] = pending[h]]
  /\ pending' = [pending EXCEPT ![h] = 0]
  /\ UNCHANGED <<created, live, workerQuit, closedHolders, quitError, restVars>>

\* Worker.close() of holder h, through its delay(100): client.quit(), which
\* rejects on a client that is closed already
WorkerClose(h) ==
  /\ client[h] # 0
  /\ closedHolders' = closedHolders \cup {h}
  /\ IF client[h] \in live
     THEN /\ live' = live \ {client[h]}
          /\ workerQuit' = workerQuit \cup {client[h]}
          /\ UNCHANGED quitError
     ELSE /\ quitError' = TRUE
          /\ UNCHANGED <<live, workerQuit>>
  /\ UNCHANGED <<instances, created, pending, client, restVars>>

\* Queue.close(): the producer is marked not ready; the client is left alone
QueueClose ==
  /\ client["queue"] # 0
  /\ "queue" \notin closedHolders
  /\ closedHolders' = closedHolders \cup {"queue"}
  /\ UNCHANGED <<instances, created, live, workerQuit, pending, client, quitError,
                 restVars>>

\* RedisConnection.closeAll(): quit() of every cached client, then clear();
\* a quit() that rejects leaves the map as it is
closeAll ==
  /\ instances # 0
  /\ instances \in live
  /\ live' = live \ {instances}
  /\ instances' = 0
  /\ UNCHANGED <<created, workerQuit, pending, client, closedHolders, quitError,
                 restVars>>

\* One process in which a Queue and two Workers are constructed for the same
\* endpoint, at any time, and closed
NextRegistry ==
  \/ \E h \in Holders : createClient(h)
  \/ \E h \in Holders : clientReady(h)
  \/ \E h \in WorkerHolders : WorkerClose(h)
  \/ QueueClose
  \/ closeAll

SpecRegistry == Init /\ [][NextRegistry]_vars

\* calculateBackoff on its own: any arguments, then the call
InitBackoff ==
  /\ InitQueue
  /\ backoffCall \in BackoffInputs

NextBackoff == calculateBackoffCall

SpecBackoff == InitBackoff /\ [][NextBackoff]_vars

(* -------------------------------- properties -------------------------- *)

InFlight(w) == {t \in tasks : t.w = w}

\* Jobs worker w has moved to active and been handed, over all its loops
RECURSIVE SumActiveJobs(_, _)
SumActiveJobs(w, L) ==
  IF L = {} THEN 0
  ELSE LET l == CHOOSE x \in L : TRUE
       IN dloop[w][l].activeJobs + SumActiveJobs(w, L \ {l})

Moved(w) == SumActiveJobs(w, Loops)

\* C1: every job id occurs at most once over the waiting list, the active
\* list and the delayed set, in every reachable state.
C1_AtMostOneOccurrence == \A j \in Ids : Occurrences(j) <= 1

\* A retried job sits in delayed, after a removeJob has run, while another job
\* is active.
C1_Witness ==
  \E j \in DOMAIN delayed \cap DOMAIN data :
    /\ data[j].attemptsMade >= 1
    /\ removeResult = "returned"
    /\ \E k \in Range(active) : k # j

\* C2: no two execution tasks, of one worker or of two, hold the same job id
\* between moveToActive and their completion, retry or terminal-failure write.
C2_OneTaskPerId ==
  \A t1 \in tasks : \A t2 \in tasks : t1 # t2 => t1.id # t2.id

\* Tasks of both workers run handlers at once, two of them in one worker.
C2_Witness ==
  \E t1 \in tasks : \E t2 \in tasks :
    /\ t1 # t2 /\ t1.w = t2.w
    /\ t1.pc = "handler" /\ t2.pc = "handler"

\* C3: with one running worker whose handlers terminate, every id placed in
\* waiting is eventually taken out of it and handed to the handler.
C3_WaitingIsProcessed ==
  \A j \in Ids :
    (j \in Range(waiting)) ~> (j \notin Range(waiting) /\ invocations[j] > 0)

\* C4: a worker never has more unfinished execution tasks than its
\* concurrency setting, whatever process, pause and resume calls are made.
C4_ConcurrencyCap ==
  \A w \in Workers : Cardinality(InFlight(w)) <= concurrency[w]

\* C5: while the queue's pause flag is set, no id enters the active list.
C5_NoDispatchWhilePaused ==
  [][paused => \A j \in Ids : Count(active', j) <= Count(active, j)]_vars

\* C6: the handler is invoked at most options.attempts times for a job, and a
\* record with status failed has attemptsMade = options.attempts.
C6_AttemptsBound ==
  /\ \A j \in DOMAIN data :
       /\ invocations[j] <= AttemptsOf(data[j].options)
       /\ data[j].status = "failed" =>
            data[j].attemptsMade = AttemptsOf(data[j].options)
  /\ \A t \in tasks :
       t.pc # "hget" => invocations[t.id] <= AttemptsOf(t.job.options)

\* A job with attempts = MaxAttempts has failed for good after as many
\* handler invocations.
C6_Witness ==
  \E j \in DOMAIN data :
    /\ data[j].status = "failed"
    /\ data[j].options.attempts = MaxAttempts
    /\ invocations[j] = MaxAttempts

\* C7: the record written on success has status completed, the value the
\* handler returned, and attemptsMade = (number of the attempt) - 1.
C7_SuccessRecord ==
  [][\A t \in tasks \ tasks' :
       (t.pc = "complete" /\ ~t.job.options.removeOnComplete) =>
          /\ t.id \in DOMAIN data'
          /\ data'[t.id].status = "completed"
          /\ data'[t.id].returnValue = t.result
          /\ data'[t.id].attemptsMade = invocations[t.id] - 1]_vars

\* A job has completed on its second attempt.
C7_Witness ==
  \E j \in DOMAIN data :
    /\ data[j].status = "completed"
    /\ data[j].returnValue = "r2"
    /\ data[j].attemptsMade = 1
    /\ invocations[j] = 2

\* C8: when the timer fires first, the attempt goes down the failure path
\* with reason "Job timeout" and is retried or failed by the attempts rule;
\* the abandoned handler settling later changes nothing.
C8_Timeout ==
  [][/\ \A e \in abandoned' \ abandoned :
          /\ \E t \in tasks' : /\ t.w = e[1] /\ t.id = e[2]
                               /\ t.pc = "fail_hget" /\ t.reason = JobTimeout
          /\ UNCHANGED redisVars
     /\ \A t \in tasks \ tasks' :
          (t.reason = JobTimeout /\ t.pc \in {"fail_retry", "fail_final"}) =>
             IF t.id \in DOMAIN data'
             THEN /\ data'[t.id].failedReason = JobTimeout
                  /\ data'[t.id].status =
                       IF data'[t.id].attemptsMade < AttemptsOf(data'[t.id].options)
                       THEN "delayed" ELSE "failed"
                  /\ data'[t.id].status = "delayed" <=> t.id \in DOMAIN delayed'
             ELSE t.pc = "fail_final" /\ t.job.options.removeOnFail
     /\ (abandoned' # abandoned /\ abandoned' \subseteq abandoned) =>
          UNCHANGED <<redisVars, tasks, dloop, invocations>>]_vars

\* A handler was abandoned and its job's record carries the timeout.
C8_Witness ==
  \E e \in abandoned :
    /\ e[2] \in DOMAIN data
    /\ data[e[2]].failedReason = JobTimeout
    /\ data[e[2]].status \in {"delayed", "failed"}

\* C9: once removeJob(id) has run for a job whose handler was running, no key
\* of that id exists again: no hash, and the id in no collection.
C9_RemovedStaysRemoved ==
  \A j \in removedActive :
    /\ j \notin DOMAIN data
    /\ j \notin startedAt
    /\ Occurrences(j) = 0

\* C10: removeJob(id) for an id without a record returns normally.
C10_RemoveJobReturns == removeResult # "JobError"

\* C11: getJob(id) for an id without a hash record returns null and raises
\* no error, also after removeJob(id) of a job that was added.
C11_GetJobReturnsNull == got.kind # "JobError"

\* C12: the add step stores the new job with status delayed, and its id in
\* the delayed set at now + delay, exactly when the merged options have
\* delay > 0; else with status waiting and its id in the waiting list.
C12_AddPlacesByDelay ==
  [][nextId' # nextId =>
       LET j == nextId
           job == data'[j]
       IN IF job.options.delay > 0
          THEN /\ job.status = "delayed"
               /\ j \in DOMAIN delayed'
               /\ delayed'[j] = now + job.options.delay
               /\ j \notin Range(waiting')
          ELSE /\ job.status = "waiting"
               /\ j \in Range(waiting')
               /\ j \notin DOMAIN delayed']_vars

\* A payload that JSON text represents
IsJson(v) == v.type \in {"object", "string", "null"} \/ (v.type = "number" /\ v.val # "NaN")

C20_IsPausedIffLastPause == isPaused <=> (lastControl.last = "pause")

\* The queue was paused and then resumed, with jobs in it.
C20_Witness ==
  /\ lastControl = [prev |-> "pause", last |-> "resume"]
  /\ ~isPaused
  /\ waiting # <<>>

\* C16: the status in a job's record agrees with the collection holding its
\* id: waiting in the waiting list, delayed in the delayed set, and every id
\* in the active list has status active.
C16_StatusMatchesCollection ==
  \A j \in DOMAIN data :
    /\ data[j].status = "waiting" => j \in Range(waiting)
    /\ data[j].status = "delayed" => j \in DOMAIN delayed
    /\ j \in Range(active) => data[j].status = "active"

C13_CompletedEvent ==
  [][\A t \in tasks \ tasks' :
       t.pc = "complete" =>
         [w |-> t.w, id |-> t.id, result |-> t.result] \in completedEvents']_vars

\* C14: once the worker is paused or closed, every job it still holds
\* eventually leaves the active list.
C14_InFlightDrains ==
  \A j \in Ids :
    (\E t \in tasks : t.w \in Closing /\ t.id = j /\ ~isRunning[t.w] /\ j \in Range(active))
      ~> (j \notin Range(active))

\* C15: a worker with maxJobsPerWorker = M moves at most M jobs to active
\* over its lifetime.
C15_MaxJobsPerWorker ==
  \A w \in Workers : maxJobsPerWorker[w] # 0 => Moved(w) <= maxJobsPerWorker[w]

\* C21: calculateBackoff returns 0 without a backoff, the configured delay
\* for type fixed, delay * 2^(attempts-1) for type exponential and 0 for any
\* other type, also when the configured delay is 0.
C21_BackoffFormula ==
  backoffCall.result # NotReturned =>
    backoffCall.result =
      LET bo == backoffCall.opts.backoff
      IN CASE bo.type = "fixed" -> bo.delay
           [] bo.type = "exponential" -> bo.delay * Pow2(backoffCall.attempts - 1)
           [] OTHER -> 0

\* The ids a step takes out of the delayed set and puts into the waiting list
PromotedIds ==
  {j \in DOMAIN delayed : j \notin DOMAIN delayed' /\ j \notin Range(waiting)
                            /\ j \in Range(waiting')}

\* C22: a promoteDelayed call at time now that moves ids leaves no id with
\* score <= now in the delayed set and moves no id with score > now.
C22_PromotesExactlyDue ==
  [][PromotedIds # {} =>
       /\ \A j \in DOMAIN delayed : delayed[j] <= now => j \notin DOMAIN delayed'
       /\ \A j \in PromotedIds : delayed[j] <= now]_vars

\* A record in a terminal state
Terminal(job) == job.status \in {"completed", "failed"}

\* C24: a job whose record has status completed or failed has its id in no
\* collection, now and after every step; the step leaves its status as it is
\* or deletes the record, and only removeJob deletes it.
C24_TerminalAbsorbing ==
  /\ [](\A j \in DOMAIN data : Terminal(data[j]) => Occurrences(j) = 0)
  /\ [][\A j \in DOMAIN data :
          Terminal(data[j]) =>
            /\ j \notin Range(waiting') \cup Range(active') \cup DOMAIN delayed'
            /\ IF j \in DOMAIN data'
               THEN data'[j].status = data[j].status
               ELSE removing = j /\ removing' = 0]_vars

\* One job has failed for good after a retry and another has completed, and
\* a removeJob call has deleted nothing of them.
C24_Witness ==
  /\ removeResult = "JobError"
  /\ \E j \in DOMAIN data : data[j].status = "failed" /\ data[j].attemptsMade > 1
  /\ \E k \in DOMAIN data : data[k].status = "completed"

\* C23: the registry never has two clients for the endpoint, also when
\* createClient calls overlap, and closeAll leaves no client open but those
\* still being connected.
C23_OneClientPerEndpoint ==
  /\ [](Cardinality(live) <= 1)
  /\ [][(instances # 0 /\ instances' = 0) =>
          live' \subseteq {pending[h] : h \in Holders}]_vars

\* C25: no client that a Worker.close() has quit is still cached in the
\* registry or held by a Queue or Worker that was not closed, and no
\* Worker.close() call has failed.
C25_NoClosedClientInUse ==
  /\ instances \notin workerQuit
  /\ \A h \in Holders \ closedHolders : client[h] \notin workerQuit
  /\ ~quitError

====
